---- MODULE Spec2Model ----
(***************************************************************************)
(* Model of package neuron (src/neuron.go): simulated neurons, each a data *)
(* structure plus one goroutine started by Run, connected by unbuffered Go *)
(* channels, driven by one client thread ("main") that calls the package's *)
(* exported functions.                                                     *)
(*                                                                         *)
(* Neurons are numbered 1..NumNeurons in registration order (the order of  *)
(* the package-level slices neurons and cntlChans).  Link channels are     *)
(* numbered 1..nchans in creation order.  Go slices are 0-based; the       *)
(* sequences here are 1-based, so Go's s[k] is s[k+1] below.               *)
(***************************************************************************)
EXTENDS Integers, Sequences, FiniteSets, TLC

\* ---------------------------------------------------------------- bounds
NumNeurons == 3
MaxChans == 2
MaxMany == 2
MaxImpulse == 1
MaxThreshold == 0

\* Links of a network wired before the client starts it (WiredInit)
MaxWired == MaxChans + 1

Neurons == 1..NumNeurons
ChanIds == 1..MaxWired
Impulses == 0..MaxImpulse
Thresholds == 0..MaxThreshold

\* ------------------------------------------------------ program constants
\* nstate (const block): stopped = iota, running, paused
stopped == 0
running == 1
paused == 2
\* const fixedCases = 2: the select cases before the dendrite cases
fixedCases == 2
\* the value an axon emits
Stimulus == 1

VARIABLES
    threshold,      \* n.threshold
    state,          \* n.state
    sigma,          \* n.sigma
    activity,       \* n.activity
    dendriteChans,  \* n.dendriteChans: sequence of channel ids
    axonChans,      \* n.axonChans: sequence of channel ids
    connected,      \* n.connected
    lastInChan,     \* n.lastInChan: 0 is nil, else a channel id
    waitForChan,    \* n.waitForChan # nil
    tickChan,       \* TRUE while the one value of time.After is still to be received
    started,        \* package variable started
    nchans,         \* number of link channels made so far
    gpc,            \* position and locals of each neuron's goroutine
    mainpc,         \* position and locals of the client thread
    chanLog,        \* per link channel: <<sender, value, receiver>> of each value it carried
    crashed,        \* the process died of an unrecovered panic
    script          \* progress of the client through the end-to-end scenario

vars == <<threshold, state, sigma, activity, dendriteChans, axonChans, connected,
          lastInChan, waitForChan, tickChan, started, nchans, gpc, mainpc,
          chanLog, crashed, script>>

neuronVars == <<threshold, state, sigma, activity, dendriteChans, axonChans,
                connected, lastInChan, waitForChan>>

\* ------------------------------------------------------------- positions
GIdle == [at |-> "none", ncases |-> 0, chosen |-> -1, msg |-> "", i |-> 0, alen |-> 0]
MIdle == [op |-> "idle", n |-> 0, v |-> 0, rest |-> <<>>]

\* New(threshold), called NumNeurons times by NewNeurons(num, threshold)
Init ==
    /\ \E t \in Thresholds : threshold = [n \in Neurons |-> t]
    /\ state = [n \in Neurons |-> stopped]
    /\ sigma = [n \in Neurons |-> 0]
    /\ activity = [n \in Neurons |-> 1]
    /\ dendriteChans = [n \in Neurons |-> <<>>]
    /\ axonChans = [n \in Neurons |-> <<>>]
    /\ connected = [n \in Neurons |-> FALSE]
    /\ lastInChan = [n \in Neurons |-> 0]
    /\ waitForChan = [n \in Neurons |-> FALSE]
    /\ tickChan = [n \in Neurons |-> TRUE]
    /\ started = FALSE
    /\ nchans = 0
    /\ gpc = [n \in Neurons |-> GIdle]
    /\ mainpc = MIdle
    /\ chanLog = [c \in ChanIds |-> <<>>]
    /\ crashed = FALSE
    /\ script = 0

Alive == ~crashed

\* --------------------------------------------------- end-to-end scenario
\* The calls of the scenario, in order, on A = neuron 1, B1 = 2, B2 = 3.
ScenarioCalls ==
    << <<"LinkOneToMany", 1, <<2, 3>>, 0>>,
       <<"StartAllNeurons", 0, <<>>, 0>>,
       <<"Fire", 1, <<>>, 1>>,
       <<"Fire", 1, <<>>, 1>>,
       <<"Fire", 1, <<>>, 1>> >>

\* script = k: the client has made exactly the first k calls of the scenario
\* and no other call; -1: it has left the scenario.
ScriptStep(call) ==
    IF script >= 0 /\ script < Len(ScenarioCalls) /\ ScenarioCalls[script + 1] = call
    THEN script + 1
    ELSE -1

\* ------------------------------------------------------------ Link fabric
\* The lists of neurons the client passes: up to MaxMany distinct neurons.
Manys == UNION {{m \in [1..k -> Neurons] : \A p, q \in 1..k : m[p] = m[q] => p = q} :
                k \in 1..MaxMany}

\* The client links distinct neurons: no neuron to itself.
Others(a) == {m \in Manys : \A p \in 1..Len(m) : m[p] # a}

\* A link loop that stops after the first channel it gives neuron v.
NewChansOfOnce(ends, v, base) ==
    LET ids == [k \in 1..Len(ends) |-> base + k]
        Mine(c) == ends[c - base] = v
        all == SelectSeq(ids, Mine)
    IN  IF all = <<>> THEN <<>> ELSE <<Head(all)>>

\* The channels among base+1..base+Len(ends) whose end in `ends` is neuron v.
NewChansOf(ends, v, base) ==
    LET ids == [k \in 1..Len(ends) |-> base + k]
        Mine(c) == ends[c - base] = v
    IN  SelectSeq(ids, Mine)

\* One make(chan int) per pair: an axon of froms[k], a dendrite of tos[k].
LinkEffect(froms, tos) ==
    /\ nchans + Len(froms) <= MaxChans
    /\ nchans' = nchans + Len(froms)
    /\ axonChans' = [n \in Neurons |-> axonChans[n] \o NewChansOf(froms, n, nchans)]
    /\ dendriteChans' = [n \in Neurons |-> dendriteChans[n] \o NewChansOf(tos, n, nchans)]
    /\ connected' = [n \in Neurons |->
                        connected[n] \/ (\E k \in 1..Len(froms) : froms[k] = n \/ tos[k] = n)]

Link(a, to) ==
    /\ Alive /\ mainpc.op = "idle"
    /\ LinkEffect(<<a>>, <<to>>)
    /\ script' = ScriptStep(<<"Link", a, <<to>>, 0>>)
    /\ UNCHANGED <<threshold, state, sigma, activity, lastInChan, waitForChan,
                   tickChan, started, gpc, mainpc, chanLog, crashed>>

LinkManyToOne(a, many) ==
    /\ Alive /\ mainpc.op = "idle"
    /\ LinkEffect(many, [k \in 1..Len(many) |-> a])
    /\ script' = ScriptStep(<<"LinkManyToOne", a, many, 0>>)
    /\ UNCHANGED <<threshold, state, sigma, activity, lastInChan, waitForChan,
                   tickChan, started, gpc, mainpc, chanLog, crashed>>

LinkOneToMany(a, many) ==
    /\ Alive /\ mainpc.op = "idle"
    /\ LinkEffect([k \in 1..Len(many) |-> a], many)
    /\ script' = ScriptStep(<<"LinkOneToMany", a, many, 0>>)
    /\ UNCHANGED <<threshold, state, sigma, activity, lastInChan, waitForChan,
                   tickChan, started, gpc, mainpc, chanLog, crashed>>

\* ------------------------------------------------------------------- Fire
\* Fire that forgets to look at the state of its target
FireGuardAnyState(n) == Len(dendriteChans[n]) > 0

\* Fire that looks at the axons of its target for something to send on
FireGuardAxons(n) == state[n] = running /\ Len(axonChans[n]) > 0

\* if n.state == running { if len(n.dendriteChans) > 0 { ... } }
FireGuard(n) == state[n] = running /\ Len(dendriteChans[n]) > 0

\* a Fire that sends on the last dendrite of its target
FireChanLast(n) ==
    IF Len(dendriteChans[n]) > 0 THEN dendriteChans[n][Len(dendriteChans[n])] ELSE 0

\* fireChan := n.dendriteChans[0] (0: there is none; the guard keeps Fire from
\* reading it then)
FireChan(n) == IF Len(dendriteChans[n]) > 0 THEN dendriteChans[n][1] ELSE 0

\* Fire: either blocked in "fireChan <- impulse" (fire_send) or, the guard
\* having failed, at "return n" (fire_ret).
Fire(n, v) ==
    /\ Alive /\ mainpc.op = "idle"
    /\ mainpc' = IF FireGuard(n)
                 THEN [MIdle EXCEPT !.op = "fire_send", !.n = n, !.v = v]
                 ELSE [MIdle EXCEPT !.op = "fire_ret", !.n = n]
    /\ script' = ScriptStep(<<"Fire", n, <<>>, v>>)
    /\ UNCHANGED <<neuronVars, tickChan, started, nchans, gpc, chanLog, crashed>>

FireReturn ==
    /\ Alive /\ mainpc.op = "fire_ret"
    /\ mainpc' = MIdle
    /\ UNCHANGED <<neuronVars, tickChan, started, nchans, gpc, chanLog, crashed, script>>

\* FireMultiple's loop from the targets still to visit: skips the targets
\* whose guard fails, blocks in "fireChan <- impulse" at the first whose guard
\* holds, returns when the list is exhausted.
RECURSIVE FireMultipleLoop(_, _)
FireMultipleLoop(targets, v) ==
    IF targets = <<>> THEN MIdle
    ELSE IF FireGuard(Head(targets))
         THEN [op |-> "fm_send", n |-> Head(targets), v |-> v, rest |-> Tail(targets)]
         ELSE FireMultipleLoop(Tail(targets), v)

FireMultiple(targets, v) ==
    /\ Alive /\ mainpc.op = "idle"
    /\ mainpc' = FireMultipleLoop(targets, v)
    /\ script' = ScriptStep(<<"FireMultiple", 0, targets, v>>)
    /\ UNCHANGED <<neuronVars, tickChan, started, nchans, gpc, chanLog, crashed>>

\* ----------------------------------------------------------- WaitForQuiet
\* makes n.waitForChan if nil, then blocks in "<-n.waitForChan"
WaitForQuiet(n) ==
    /\ Alive /\ mainpc.op = "idle"
    /\ waitForChan' = [waitForChan EXCEPT ![n] = TRUE]
    /\ mainpc' = [MIdle EXCEPT !.op = "wait", !.n = n]
    /\ script' = ScriptStep(<<"WaitForQuiet", n, <<>>, 0>>)
    /\ UNCHANGED <<threshold, state, sigma, activity, dendriteChans, axonChans,
                   connected, lastInChan, tickChan, started, nchans, gpc, chanLog,
                   crashed>>

\* -------------------------------------------------------------------- Run
\* cases := make([]reflect.SelectCase, len(n.dendriteChans)+fixedCases): the
\* select cases are the control channel, the timer channel and the dendrites the
\* neuron has when its goroutine starts.
NumCases(n) == Len(dendriteChans[n]) + fixedCases

\* Run that starts a goroutine whatever the state of the neuron
RunGuardAlways(n) == state[n] # paused

\* Run that also restarts a neuron whose goroutine has taken a "stop"
RunGuardRestart(n) == state[n] = stopped \/ gpc[n].msg = "stop"

\* if n.state == stopped { go func() {...}(); n.state = running }
RunGuard(n) == state[n] = stopped

RunEffect(n) ==
    IF RunGuard(n)
    THEN /\ gpc' = [gpc EXCEPT ![n] = [GIdle EXCEPT !.at = "select", !.ncases = NumCases(n)]]
         /\ state' = [state EXCEPT ![n] = running]
    ELSE UNCHANGED <<gpc, state>>

Run(n) ==
    /\ Alive /\ mainpc.op = "idle"
    /\ RunEffect(n)
    /\ script' = ScriptStep(<<"Run", n, <<>>, 0>>)
    /\ UNCHANGED <<threshold, sigma, activity, dendriteChans, axonChans, connected,
                   lastInChan, waitForChan, tickChan, started, nchans, mainpc,
                   chanLog, crashed>>

\* StartAllNeurons: the call, then one iteration of its loop per step
StartAllNeurons ==
    /\ Alive /\ mainpc.op = "idle"
    /\ mainpc' = [MIdle EXCEPT !.op = "startall", !.n = 1]
    /\ script' = ScriptStep(<<"StartAllNeurons", 0, <<>>, 0>>)
    /\ UNCHANGED <<neuronVars, tickChan, started, nchans, gpc, chanLog, crashed>>

StartAllStep ==
    /\ Alive /\ mainpc.op = "startall"
    /\ RunEffect(mainpc.n)
    /\ IF mainpc.n < NumNeurons
       THEN /\ mainpc' = [mainpc EXCEPT !.n = @ + 1]
            /\ UNCHANGED started
       ELSE /\ mainpc' = MIdle
            /\ started' = TRUE
    /\ UNCHANGED <<threshold, sigma, activity, dendriteChans, axonChans, connected,
                   lastInChan, waitForChan, tickChan, nchans, chanLog, crashed, script>>

\* ---------------------------------------------------- StopAllNeurons, Status
\* blocks in "n <- cntlMsg{cmd: "stop"}" for cntlChans[1], then [2], ...
StopAllNeurons ==
    /\ Alive /\ mainpc.op = "idle"
    /\ mainpc' = [MIdle EXCEPT !.op = "stopall", !.n = 1]
    /\ script' = ScriptStep(<<"StopAllNeurons", 0, <<>>, 0>>)
    /\ UNCHANGED <<neuronVars, tickChan, started, nchans, gpc, chanLog, crashed>>

\* Status: "if started" chooses between sending "status" on every control
\* channel and formatting every neuron's status directly.
StatusPath == IF started THEN "async" ELSE "sync"

Status ==
    /\ Alive /\ mainpc.op = "idle"
    /\ mainpc' = IF StatusPath = "async"
                 THEN [MIdle EXCEPT !.op = "status", !.n = 1]
                 ELSE MIdle
    /\ script' = ScriptStep(<<"Status", 0, <<>>, 0>>)
    /\ UNCHANGED <<neuronVars, tickChan, started, nchans, gpc, chanLog, crashed>>

\* ------------------------------------------------- the neuron's goroutine
\* n.lastInChan = n.dendriteChans[chosen]: the 0-based index used
LastInIndex(chosen) == chosen

\* The end of the goroutine's function, reached from every branch but "stop":
\*   if len(n.dendriteChans) > 0 { n.lastInChan = n.dendriteChans[chosen] }
\* An index out of range panics, and an unrecovered panic in a goroutine ends
\* the process.  The result is <<position, n.lastInChan>>.
GoTail(n, chosen) ==
    IF Len(dendriteChans[n]) > 0
    THEN IF LastInIndex(chosen) < Len(dendriteChans[n])
         THEN <<"exited", dendriteChans[n][LastInIndex(chosen) + 1]>>
         ELSE <<"panic", lastInChan[n]>>
    ELSE <<"exited", lastInChan[n]>>

\* The goroutine of n reaches the tail, having chosen `chosen`.  The tail that
\* stores n.lastInChan is taken with the step that reaches it; the tail that
\* panics is a step of its own (TailStep), since the other goroutines run on
\* until the panic ends the process.
Finish(g, n, chosen) ==
    [GIdle EXCEPT !.at = IF GoTail(n, chosen)[1] = "panic" THEN "tail" ELSE "exited",
                  !.chosen = chosen, !.msg = g.msg, !.i = g.i, !.alen = g.alen]

\* The process has ended: nothing of its state remains.
Dead ==
    /\ crashed' = TRUE
    /\ state' = [n \in Neurons |-> stopped]
    /\ sigma' = [n \in Neurons |-> 0]
    /\ activity' = [n \in Neurons |-> 0]
    /\ dendriteChans' = [n \in Neurons |-> <<>>]
    /\ axonChans' = [n \in Neurons |-> <<>>]
    /\ connected' = [n \in Neurons |-> FALSE]
    /\ lastInChan' = [n \in Neurons |-> 0]
    /\ waitForChan' = [n \in Neurons |-> FALSE]
    /\ tickChan' = [n \in Neurons |-> FALSE]
    /\ started' = FALSE
    /\ nchans' = 0
    /\ gpc' = [n \in Neurons |-> GIdle]
    /\ mainpc' = MIdle
    /\ chanLog' = [c \in ChanIds |-> <<>>]
    /\ script' = -1
    /\ UNCHANGED threshold

TailStep(n) ==
    /\ Alive /\ gpc[n].at = "tail"
    /\ IF GoTail(n, gpc[n].chosen)[1] = "panic"
       THEN Dead
       ELSE /\ gpc' = [gpc EXCEPT ![n] = [@ EXCEPT !.at = "exited"]]
            /\ lastInChan' = [lastInChan EXCEPT ![n] = GoTail(n, gpc[n].chosen)[2]]
            /\ UNCHANGED <<threshold, state, sigma, activity, dendriteChans, axonChans,
                           connected, waitForChan, tickChan, started, nchans, mainpc,
                           chanLog, crashed, script>>

\* The client's loop over the registry after its control message was taken.
ControlNext(m) == IF m.n < NumNeurons THEN [m EXCEPT !.n = @ + 1] ELSE MIdle

\* cmd of the control message the client is blocked sending
ControlCmd(m) == IF m.op = "stopall" THEN "stop" ELSE "status"

\* cmd = value.String(), value being the reflect.Value of the cntlMsg struct
\* received: for a Value whose kind is not String, String returns "<T Value>",
\* T the type of the value, whatever the struct holds.
ValueString(cmd) == "<neuron.cntlMsg Value>"

\* switch cmd { case "status": log the status; case "stop": return }, from
\* which every other cmd falls to the tail.  msg keeps the cmd field of the
\* message received.
AfterControl(g, n, msg) ==
    IF ValueString(msg) = "stop"
    THEN [GIdle EXCEPT !.at = "stopped", !.chosen = 0, !.msg = msg]
    ELSE Finish([g EXCEPT !.msg = msg], n, 0)

\* chosen == 0: the control channel
SelectCntl(n) ==
    /\ Alive /\ gpc[n].at = "select"
    /\ mainpc.op \in {"stopall", "status"} /\ mainpc.n = n
    /\ gpc' = [gpc EXCEPT ![n] = AfterControl(@, n, ControlCmd(mainpc))]
    /\ lastInChan' = [lastInChan EXCEPT
                        ![n] = IF gpc'[n].at = "exited" THEN GoTail(n, 0)[2] ELSE @]
    /\ UNCHANGED crashed
    /\ mainpc' = ControlNext(mainpc)
    /\ UNCHANGED <<threshold, state, sigma, activity, dendriteChans, axonChans,
                   connected, waitForChan, tickChan, started, nchans, chanLog, script>>

\* if n.activity > 0 { if n.waitForChan != nil { n.waitForChan <- struct{}{} } ... }
TickSignals(n) == activity[n] > 0 /\ waitForChan[n]

\* chosen == 1: the timer channel.  With a signal to send the goroutine blocks
\* in "n.waitForChan <- struct{}{}" (waitsend) before it resets n.activity.
SelectTick(n) ==
    /\ Alive /\ gpc[n].at = "select"
    /\ tickChan[n]
    /\ tickChan' = [tickChan EXCEPT ![n] = FALSE]
    /\ IF TickSignals(n)
       THEN /\ gpc' = [gpc EXCEPT ![n] = [@ EXCEPT !.at = "waitsend", !.chosen = 1]]
            /\ UNCHANGED <<activity, lastInChan, crashed>>
       ELSE /\ gpc' = [gpc EXCEPT ![n] = Finish(@, n, 1)]
            /\ activity' = [activity EXCEPT ![n] = 0]
            /\ lastInChan' = [lastInChan EXCEPT ![n] = GoTail(n, 1)[2]]
            /\ UNCHANGED crashed
    /\ UNCHANGED <<threshold, state, sigma, dendriteChans, axonChans, connected,
                   waitForChan, started, nchans, mainpc, chanLog, script>>

\* the rendezvous on n.waitForChan with the client blocked in WaitForQuiet, then
\* n.activity = 0 and the tail
WaitSend(n) ==
    /\ Alive /\ gpc[n].at = "waitsend"
    /\ mainpc.op = "wait" /\ mainpc.n = n
    /\ mainpc' = MIdle
    /\ activity' = [activity EXCEPT ![n] = 0]
    /\ gpc' = [gpc EXCEPT ![n] = Finish(@, n, 1)]
    /\ lastInChan' = [lastInChan EXCEPT ![n] = GoTail(n, 1)[2]]
    /\ UNCHANGED crashed
    /\ UNCHANGED <<threshold, state, sigma, dendriteChans, axonChans, connected,
                   waitForChan, tickChan, started, nchans, chanLog, script>>

\* Who is blocked sending on link channel c: 0 is the client (Fire or
\* FireMultiple, on the target's first dendrite), a neuron is a goroutine in
\* its "for _, m := range n.axonChans { m <- 1 }" loop.
SendsOn(s, c) ==
    IF s = 0
    THEN /\ mainpc.op \in {"fire_send", "fm_send"}
         /\ FireChan(mainpc.n) = c
    ELSE /\ gpc[s].at = "emit"
         /\ axonChans[s][gpc[s].i] = c

SentValue(s) == IF s = 0 THEN mainpc.v ELSE Stimulus

\* an accumulator that counts the impulses instead of adding them up
AccumulateCount(sig, v) == sig + 1

\* n.sigma += int(value.Int())
Accumulate(sig, v) == sig + v

\* a trigger that already fires at the threshold
TriggersAtThreshold(sig, thr) == sig >= thr

\* if n.sigma > n.threshold
Triggers(sig, thr) == sig > thr

\* After the receive from a dendrite: the goroutine enters the range loop over
\* n.axonChans (blocked in the first "m <- 1") or goes to the tail.
AfterDendrite(g, n, chosen, sig) ==
    IF Triggers(sig, threshold[n]) /\ Len(axonChans[n]) > 0
    THEN [g EXCEPT !.at = "emit", !.chosen = chosen, !.i = 1, !.alen = Len(axonChans[n])]
    ELSE Finish([g EXCEPT !.i = 0, !.alen = 0], n, chosen)

\* the sender's loop after its send was taken: the next axon, or the tail
EmitNext(g, n) ==
    IF g.i < g.alen THEN [g EXCEPT !.i = @ + 1] ELSE Finish(g, n, g.chosen)

\* chosen >= fixedCases: dendrite j (0-based) of the cases built when the
\* goroutine started; n.activity++; n.sigma += int(value.Int()).  The sender s
\* moves on in the same step (an unbuffered channel).
SelectDendrite(n, j, s) ==
    /\ Alive /\ gpc[n].at = "select"
    /\ j + fixedCases < gpc[n].ncases
    /\ s # n
    /\ LET c == dendriteChans[n][j + 1]
       IN  /\ SendsOn(s, c)
           /\ chanLog' = [chanLog EXCEPT ![c] = Append(@, <<s, SentValue(s), n>>)]
    /\ activity' = [activity EXCEPT ![n] = @ + 1]
    /\ sigma' = [sigma EXCEPT ![n] = Accumulate(@, SentValue(s))]
    /\ gpc' = [k \in Neurons |->
                 IF k = n THEN AfterDendrite(gpc[n], n, j + fixedCases, Accumulate(sigma[n], SentValue(s)))
                 ELSE IF k = s THEN EmitNext(gpc[s], s)
                 ELSE gpc[k]]
    /\ lastInChan' = [k \in Neurons |->
                 IF k = n /\ gpc'[n].at = "exited" THEN GoTail(n, j + fixedCases)[2]
                 ELSE IF k = s /\ gpc'[s].at = "exited" THEN GoTail(s, gpc[s].chosen)[2]
                 ELSE lastInChan[k]]
    /\ UNCHANGED crashed
    /\ mainpc' = IF s # 0 THEN mainpc
                 ELSE IF mainpc.op = "fire_send" THEN MIdle
                 ELSE FireMultipleLoop(mainpc.rest, mainpc.v)
    /\ UNCHANGED <<threshold, state, dendriteChans, axonChans, connected,
                   waitForChan, tickChan, started, nchans, script>>

\* ------------------------------------------------------------ specification
Next ==
    \/ \E a \in Neurons : \E b \in Neurons \ {a} : Link(a, b)
    \/ \E a \in Neurons : \E many \in Others(a) : LinkManyToOne(a, many)
    \/ \E a \in Neurons : \E many \in Others(a) : LinkOneToMany(a, many)
    \/ \E n \in Neurons, v \in Impulses : Fire(n, v)
    \/ FireReturn
    \/ \E targets \in Manys, v \in Impulses : FireMultiple(targets, v)
    \/ \E n \in Neurons : WaitForQuiet(n)
    \/ \E n \in Neurons : Run(n)
    \/ StartAllNeurons
    \/ StartAllStep
    \/ StopAllNeurons
    \/ Status
    \/ \E n \in Neurons : SelectCntl(n)
    \/ \E n \in Neurons : SelectTick(n)
    \/ \E n \in Neurons : WaitSend(n)
    \/ \E n \in Neurons, j \in 0..(MaxChans - 1), s \in 0..NumNeurons : SelectDendrite(n, j, s)
    \/ \E n \in Neurons : TailStep(n)

Spec == Init /\ [][Next]_vars

\* ------------------------------------------------- a network wired up front
\* The state after New for every neuron and MaxWired calls of Link between
\* distinct neurons: the construction phase is over, the client only drives.
WiredInit ==
    /\ \E froms, tos \in [1..MaxWired -> Neurons] :
          /\ \A k \in 1..MaxWired : froms[k] # tos[k]
          /\ axonChans = [n \in Neurons |-> NewChansOf(froms, n, 0)]
          /\ dendriteChans = [n \in Neurons |-> NewChansOf(tos, n, 0)]
          /\ connected = [n \in Neurons |->
                            \E k \in 1..MaxWired : froms[k] = n \/ tos[k] = n]
    /\ \E t \in Thresholds : threshold = [n \in Neurons |-> t]
    /\ state = [n \in Neurons |-> stopped]
    /\ sigma = [n \in Neurons |-> 0]
    /\ activity = [n \in Neurons |-> 1]
    /\ lastInChan = [n \in Neurons |-> 0]
    /\ waitForChan = [n \in Neurons |-> FALSE]
    /\ tickChan = [n \in Neurons |-> TRUE]
    /\ started = FALSE
    /\ nchans = MaxWired
    /\ gpc = [n \in Neurons |-> GIdle]
    /\ mainpc = MIdle
    /\ chanLog = [c \in ChanIds |-> <<>>]
    /\ crashed = FALSE
    /\ script = -1

WiredNext ==
    \/ \E n \in Neurons, v \in Impulses : Fire(n, v)
    \/ FireReturn
    \/ \E targets \in Manys, v \in Impulses : FireMultiple(targets, v)
    \/ \E n \in Neurons : WaitForQuiet(n)
    \/ \E n \in Neurons : Run(n)
    \/ StartAllNeurons
    \/ StartAllStep
    \/ StopAllNeurons
    \/ Status
    \/ \E n \in Neurons : SelectCntl(n)
    \/ \E n \in Neurons : SelectTick(n)
    \/ \E n \in Neurons : WaitSend(n)
    \/ \E n \in Neurons, j \in 0..(MaxWired - 1), s \in 0..NumNeurons : SelectDendrite(n, j, s)
    \/ \E n \in Neurons : TailStep(n)

SpecWired == WiredInit /\ [][WiredNext]_vars

\* ------------------------------------------------------------- scheduling
\* The Go scheduler runs every goroutine that can take a step, a time.After
\* channel delivers its value once its duration is over, and a client inside a
\* call goes on with it; the client is free never to make another call.
Fairness ==
    /\ \A n \in Neurons :
          /\ WF_vars(SelectCntl(n))
          /\ WF_vars(SelectTick(n))
          /\ WF_vars(WaitSend(n))
          /\ WF_vars(TailStep(n))
          /\ WF_vars(\E j \in 0..(MaxChans - 1), s \in 0..NumNeurons : SelectDendrite(n, j, s))
    /\ WF_vars(StartAllStep)
    /\ WF_vars(FireReturn)

SpecLive == Spec /\ Fairness

\* ================================================================= claims
RECURSIVE SumValues(_)
SumValues(log) == IF log = <<>> THEN 0 ELSE Head(log)[2] + SumValues(Tail(log))

RECURSIVE SumChans(_)
SumChans(chans) ==
    IF chans = <<>> THEN 0 ELSE SumValues(chanLog[Head(chans)]) + SumChans(Tail(chans))

\* the sum of the values neuron n has received on its dendrites
Delivered(n) == SumChans(dendriteChans[n])

\* how many values channel c has carried from sender s
CountIn(log, s) ==
    LET FromS(e) == e[1] = s
    IN  Len(SelectSeq(log, FromS))

CountFrom(s, c) == CountIn(chanLog[c], s)

\* the axons neuron n has emitted on so far in its range loop
Sent(n) == IF gpc[n].at = "emit" THEN gpc[n].i - 1 ELSE gpc[n].i

\* the goroutine of n has taken a value from a dendrite
TookImpulse(n) == gpc[n].chosen >= fixedCases

\* the goroutine of n is through with its step and leaves its function by the
\* tail
Left(n) == gpc[n].at \in {"exited", "tail"}

\* the goroutine of n has taken a "stop" from its control channel
TookStop(n) == gpc[n].msg = "stop"

\* ---------------------------------------------------------------------- C1
\* C1: once started, the goroutine of a neuron is at its select or blocked
\* inside a step until it has processed "stop": processing a status command, a
\* timer tick or an impulse never makes it leave its function.
C1_StepRepeats ==
    \A n \in Neurons : Left(n) => TookStop(n)

\* ---------------------------------------------------------------------- C2
\* Every channel entry sent by a neuron is the stimulus 1; a neuron has
\* emitted exactly once on each of its first Sent(n) axons and on no other,
\* and only if it took an impulse that brought sigma over its threshold.
EmissionInv ==
    \A n \in Neurons :
        /\ \A c \in ChanIds : \A k \in 1..Len(chanLog[c]) :
              chanLog[c][k][1] = n => chanLog[c][k][2] = Stimulus
        /\ Sent(n) > 0 => TookImpulse(n) /\ sigma[n] > threshold[n]
        /\ Sent(n) <= Len(axonChans[n])
        /\ \A p \in 1..Len(axonChans[n]) :
              CountFrom(n, axonChans[n][p]) = IF p <= Sent(n) THEN 1 ELSE 0

\* C2: the step that takes the impulse bringing sigma over the threshold starts
\* the emission on the first axon, with every axon of the neuron to come, in
\* the order of the links; a step whose sum does not exceed the threshold emits
\* nothing; the emission sends 1 exactly once per axon, in order; a goroutine
\* that is through with a triggered step has emitted on every axon.
C2_ThresholdFiring ==
    [][~crashed' =>
        /\ EmissionInv'
        /\ \A n \in Neurons :
             /\ (gpc[n].at = "select" /\ TookImpulse(n)')
                  => IF sigma'[n] > threshold[n]
                     THEN IF Len(axonChans[n]) > 0
                          THEN /\ gpc'[n].at = "emit" /\ gpc'[n].i = 1
                               /\ gpc'[n].alen = Len(axonChans[n])
                          ELSE Left(n)'
                     ELSE Left(n)' /\ Sent(n)' = 0
             /\ (gpc[n].at = "emit" /\ gpc'[n] # gpc[n])
                  => /\ CountIn(chanLog'[axonChans[n][gpc[n].i]], n) = 1
                     /\ IF gpc[n].i < gpc[n].alen
                        THEN gpc'[n].at = "emit" /\ gpc'[n].i = gpc[n].i + 1
                        ELSE Left(n)' /\ Sent(n)' = gpc[n].alen
    ]_vars

\* a neuron with two axons took an impulse over its threshold and has left its
\* function after emitting on both
C2_Witness ==
    \E n \in Neurons :
        /\ TookImpulse(n) /\ sigma[n] > threshold[n] /\ Left(n)
        /\ Len(axonChans[n]) = 2 /\ Sent(n) = 2
        /\ \A p \in 1..2 : CountFrom(n, axonChans[n][p]) = 1

\* ---------------------------------------------------------------------- C3
\* C3: the accumulator of a neuron is the sum of the values delivered to it,
\* and no step lowers it, a step that fires included.
C3_AccumulatorIsSum ==
    [][~crashed' =>
        \A n \in Neurons : sigma'[n] >= sigma[n] /\ sigma'[n] = Delivered(n)'
    ]_vars

\* a neuron took an impulse, fired on its axon and has left its function with
\* the accumulator still over the threshold
C3_Witness ==
    \E n \in Neurons :
        /\ TookImpulse(n) /\ Left(n) /\ Sent(n) >= 1
        /\ sigma[n] > threshold[n] /\ sigma[n] = Delivered(n)

\* ---------------------------------------------------------------------- C4
\* C4: a call of Fire on a neuron that is stopped or has no dendrite goes
\* straight to its return, sends nothing and changes no field of any neuron;
\* from there the call returns, again changing nothing.
C4_NoOpFire ==
    [][~crashed' =>
        /\ \A n \in Neurons :
             (/\ mainpc.op = "idle"
              /\ mainpc'.op \in {"fire_send", "fire_ret"}
              /\ mainpc'.n = n
              /\ (state[n] = stopped \/ Len(dendriteChans[n]) = 0))
             => /\ mainpc'.op = "fire_ret"
                /\ UNCHANGED <<neuronVars, gpc, chanLog, tickChan, started, nchans>>
        /\ (mainpc.op = "fire_ret" /\ mainpc' # mainpc)
             => /\ mainpc' = MIdle
                /\ UNCHANGED <<neuronVars, gpc, chanLog, tickChan, started, nchans>>
    ]_vars

\* Fire is at its return, having sent nothing, on a stopped neuron that has a
\* dendrite, while another neuron is running
C4_Witness ==
    /\ mainpc.op = "fire_ret"
    /\ state[mainpc.n] = stopped /\ Len(dendriteChans[mainpc.n]) > 0
    /\ \E m \in Neurons : state[m] = running

\* ---------------------------------------------------------------------- C5
\* C5: StopAllNeurons after StartAllNeurons completes: the neuron whose "stop"
\* it is blocked sending has not left its function on another message, so it
\* can still take the "stop".
C5_StopAllCompletes ==
    (started /\ mainpc.op = "stopall") => ~(Left(mainpc.n) /\ ~TookStop(mainpc.n))

\* ---------------------------------------------------------------------- C6
\* C6: a neuron whose goroutine has processed "stop" has state stopped.
C6_StoppedAfterStop ==
    \A n \in Neurons : TookStop(n) => state[n] = stopped

\* ---------------------------------------------------------------------- C7
\* C7: once StopAllNeurons has returned (every goroutine has processed its
\* "stop" and the client is back), Status takes the synchronous path.
C7_StatusSyncAfterStop ==
    (mainpc.op = "idle" /\ \A n \in Neurons : TookStop(n))
        => StatusPath = "sync"

\* ---------------------------------------------------------------------- C8
\* C8: a goroutine that has processed "stop" takes nothing more: its position,
\* accumulator and activity count stay, its timer value stays unreceived, no
\* value arrives on its dendrites and a client blocked sending it a control
\* message or an impulse stays blocked.
C8_NoStepAfterStop ==
    [][~crashed' =>
        \A n \in Neurons : TookStop(n) =>
            /\ gpc'[n] = gpc[n]
            /\ sigma'[n] = sigma[n] /\ activity'[n] = activity[n]
            /\ tickChan'[n] = tickChan[n]
            /\ \A k \in 1..Len(dendriteChans[n]) :
                  chanLog'[dendriteChans[n][k]] = chanLog[dendriteChans[n][k]]
            /\ (mainpc.op \in {"stopall", "status", "fire_send", "fm_send"} /\ mainpc.n = n)
                  => mainpc' = mainpc
    ]_vars

\* the goroutine of a neuron has processed "stop" and the client is blocked in
\* Fire sending it an impulse
C8_Witness ==
    \E n \in Neurons :
        TookStop(n) /\ mainpc.op = "fire_send" /\ mainpc.n = n

\* ---------------------------------------------------------------------- C9
\* C9: the step that unblocks a client waiting in WaitForQuiet(n) is a timer
\* tick that found n.activity = 0.
C9_UnblockedWhenQuiet ==
    [][~crashed' =>
        \A n \in Neurons :
            (mainpc.op = "wait" /\ mainpc.n = n /\ mainpc'.op = "idle")
                => activity[n] = 0
    ]_vars

\* --------------------------------------------------------------------- C10
\* the client has made the calls of the scenario and is back from the last
ScenarioDone == script = Len(ScenarioCalls) /\ mainpc.op = "idle"

\* C10 as stated: with the scenario run and no emission under way, B1 and B2
\* have accumulated 3.
C10_Scenario ==
    (ScenarioDone /\ \A n \in Neurons : gpc[n].at # "emit")
        => sigma[2] = 3 /\ sigma[3] = 3

\* C10 amended: all through the scenario no Fire blocks or sends, no channel
\* carries a value, and A, B1 and B2 keep accumulator 0.
C10_ScenarioNoOp ==
    script >= 1 =>
        /\ mainpc.op # "fire_send"
        /\ \A c \in ChanIds : chanLog[c] = <<>>
        /\ \A n \in Neurons : sigma[n] = 0 /\ Sent(n) = 0

\* the scenario is done and A, B1 and B2 are still at their select
C10_Witness ==
    /\ ScenarioDone
    /\ \A n \in {1, 2, 3} : gpc[n].at = "select" /\ threshold[n] = 0

\* --------------------------------------------------------------------- C11
\* the input and output counts of the neurons outside `touched` stay
OthersKeep(touched) ==
    \A m \in Neurons \ touched :
        /\ axonChans'[m] = axonChans[m]
        /\ dendriteChans'[m] = dendriteChans[m]

\* C11: a.LinkOneToMany(many), a and many distinct, gives a Len(many) more
\* axons and no dendrite, each many[i] one more dendrite and no axon, no other
\* neuron anything, and the i-th new axon of a is the new dendrite of many[i];
\* a.LinkManyToOne(many) is the same with axons and dendrites exchanged.
C11_TopologySymmetry ==
    [][\A a \in Neurons : \A many \in Others(a) :
        LET k == Len(many)
            B == {many[i] : i \in 1..k}
        IN  /\ LinkOneToMany(a, many) =>
                /\ Len(axonChans'[a]) = Len(axonChans[a]) + k
                /\ dendriteChans'[a] = dendriteChans[a]
                /\ \A i \in 1..k :
                     /\ Len(dendriteChans'[many[i]]) = Len(dendriteChans[many[i]]) + 1
                     /\ axonChans'[many[i]] = axonChans[many[i]]
                     /\ axonChans'[a][Len(axonChans[a]) + i]
                          = dendriteChans'[many[i]][Len(dendriteChans'[many[i]])]
                /\ OthersKeep({a} \cup B)
            /\ LinkManyToOne(a, many) =>
                /\ Len(dendriteChans'[a]) = Len(dendriteChans[a]) + k
                /\ axonChans'[a] = axonChans[a]
                /\ \A i \in 1..k :
                     /\ Len(axonChans'[many[i]]) = Len(axonChans[many[i]]) + 1
                     /\ dendriteChans'[many[i]] = dendriteChans[many[i]]
                     /\ dendriteChans'[a][Len(dendriteChans[a]) + i]
                          = axonChans'[many[i]][Len(axonChans'[many[i]])]
                /\ OthersKeep({a} \cup B)
    ]_vars

\* the first call of the scenario, LinkOneToMany(A, [B1, B2]), has been made:
\* A has two axons, the first the dendrite of B1 and the second that of B2
C11_Witness ==
    /\ script = 1
    /\ Len(axonChans[1]) = 2 /\ dendriteChans[1] = <<>>
    /\ dendriteChans[2] = <<axonChans[1][1]>>
    /\ dendriteChans[3] = <<axonChans[1][2]>>

\* --------------------------------------------------------------------- C12
\* the neurons that have channel c among the channels of list chans
OwnersOf(chans, c) ==
    {<<n, p>> \in Neurons \X (1..MaxWired) : p <= Len(chans[n]) /\ chans[n][p] = c}

\* every link channel made is an axon of exactly one neuron, at one place of
\* its list, and a dendrite of exactly one neuron, at one place of its list
OneOwnerEach ==
    \A c \in 1..nchans :
        /\ Cardinality(OwnersOf(axonChans, c)) = 1
        /\ Cardinality(OwnersOf(dendriteChans, c)) = 1

\* neuron n has channel c among the channels of list chans
HasChan(chans, n, c) == \E p \in 1..Len(chans[n]) : chans[n][p] = c

\* C12 as stated: every link has one owner at each end, every value a link
\* carried was sent by the neuron that has the link as an axon and received by
\* the neuron that has it as a dendrite.
C12_OneSenderOneReceiver ==
    /\ OneOwnerEach
    /\ \A c \in ChanIds : \A k \in 1..Len(chanLog[c]) :
          LET e == chanLog[c][k]
          IN  /\ e[1] \in Neurons /\ HasChan(axonChans, e[1], c)
              /\ HasChan(dendriteChans, e[3], c)

\* C12 amended: every link has one owner at each end; every value a link
\* carried was received by the neuron that has the link as a dendrite, and
\* was sent either by the neuron that has it as an axon, as the stimulus, or
\* by the client in Fire or FireMultiple, the link being the first dendrite of
\* the receiver.
C12_LinkParties ==
    /\ OneOwnerEach
    /\ \A c \in ChanIds : \A k \in 1..Len(chanLog[c]) :
          LET e == chanLog[c][k]
          IN  /\ HasChan(dendriteChans, e[3], c)
              /\ IF e[1] = 0
                 THEN dendriteChans[e[3]][1] = c
                 ELSE HasChan(axonChans, e[1], c) /\ e[2] = Stimulus

\* a neuron took a value the client sent on its first dendrite and the neuron
\* at the other end of its axon took the stimulus it sent then
C12_Witness ==
    \E n \in Neurons, r \in Neurons :
        /\ Len(dendriteChans[n]) = 1 /\ Len(axonChans[n]) = 1
        /\ \E v \in Impulses : chanLog[dendriteChans[n][1]] = << <<0, v, n>> >>
        /\ chanLog[axonChans[n][1]] = << <<n, Stimulus, r>> >>

\* --------------------------------------------------------------------- C13
\* C13: no step changes the number of dendrites or of axons of a neuron whose
\* state is running.
C13_FrozenWhileRunning ==
    [][~crashed' =>
        \A n \in Neurons : state[n] = running =>
            /\ Len(dendriteChans'[n]) = Len(dendriteChans[n])
            /\ Len(axonChans'[n]) = Len(axonChans[n])
    ]_vars

\* --------------------------------------------------------------------- C14
\* a goroutine is made for neuron n in this step
Spawned(n) == gpc'[n].at = "select" /\ gpc'[n] # gpc[n]

\* C14: a goroutine is made for a neuron only when none was made for it before
\* and its state is stopped, and the neuron is running from then on; a call of
\* Run on a running neuron changes nothing of the program, and the Run that
\* StartAllNeurons makes on a running neuron changes no neuron, channel or
\* goroutine.
C14_RunOnce ==
    [][~crashed' =>
        \A n \in Neurons :
            /\ Spawned(n) => gpc[n].at = "none" /\ state[n] = stopped
            /\ gpc[n].at # "none" => gpc'[n].at # "none" /\ state'[n] = running
            /\ (Run(n) /\ state[n] = running)
                 => UNCHANGED <<neuronVars, tickChan, started, nchans, gpc, mainpc, chanLog>>
            /\ (StartAllStep /\ mainpc.n = n /\ state[n] = running)
                 => UNCHANGED <<neuronVars, tickChan, nchans, gpc, chanLog>>
    ]_vars

\* the first StartAllNeurons is at its Run of the last neuron, which an earlier
\* call of Run started and whose goroutine has left its function since
C14_Witness ==
    /\ mainpc.op = "startall" /\ mainpc.n = NumNeurons /\ ~started
    /\ state[NumNeurons] = running /\ Left(NumNeurons)

\* --------------------------------------------------------------------- C15
\* C15: whenever the timer channel of a running neuron that has taken no "stop"
\* has had its value received, it comes to hold a value again, as long as the
\* process lives.
C15_TimerPeriodic ==
    \A n \in Neurons :
        []((state[n] = running /\ ~TookStop(n) /\ ~tickChan[n])
              => <>(tickChan[n] \/ crashed))

\* --------------------------------------------------------------------- C16
\* the fields of neuron n other than its activity count stay
KeepsButActivity(n) ==
    /\ threshold'[n] = threshold[n] /\ state'[n] = state[n] /\ sigma'[n] = sigma[n]
    /\ dendriteChans'[n] = dendriteChans[n] /\ axonChans'[n] = axonChans[n]
    /\ connected'[n] = connected[n] /\ lastInChan'[n] = lastInChan[n]
    /\ waitForChan'[n] = waitForChan[n]

\* C16: the step that receives the timer value of n, finding activity > 0 and
\* a wait pending, goes to signal the wait, and the signal releases the
\* waiting client once and sets the activity count to 0, nothing else of n;
\* finding activity > 0 and no wait pending, it signals nothing and sets the
\* activity count to 0, nothing else of n; finding activity = 0, it signals
\* nothing and changes nothing of n.  No tick raises the activity count or
\* changes the accumulator.
C16_TimerTick ==
    [][~crashed' =>
        \A n \in Neurons :
            /\ (tickChan[n] /\ ~tickChan'[n]) =>
                 /\ KeepsButActivity(n)
                 /\ IF activity[n] > 0 /\ waitForChan[n]
                    THEN gpc'[n].at = "waitsend" /\ activity'[n] = activity[n]
                    ELSE mainpc' = mainpc /\ activity'[n] = 0
            /\ (gpc[n].at = "waitsend" /\ gpc'[n].at # "waitsend") =>
                 /\ mainpc.op = "wait" /\ mainpc.n = n /\ mainpc' = MIdle
                 /\ KeepsButActivity(n)
                 /\ activity'[n] = 0
    ]_vars

\* --------------------------------------------------------------------- C17
\* C17: the step in which the goroutine of n receives and processes a "status"
\* control message leaves every field of n as it was.
C17_StatusReadOnly ==
    [][~crashed' =>
        \A n \in Neurons :
            (/\ mainpc.op = "status" /\ mainpc.n = n
             /\ gpc[n].at = "select" /\ gpc'[n].msg = "status")
            => KeepsButActivity(n) /\ activity'[n] = activity[n]
    ]_vars

\* --------------------------------------------------------------------- C18
\* C18: a goroutine that took an impulse from the i-th dendrite of its neuron
\* (i = chosen - fixedCases, 0-based) and has completed its step has left that
\* same i-th dendrite in lastInChan.
C18_LastInIsChosen ==
    \A n \in Neurons :
        (TookImpulse(n) /\ gpc[n].at = "exited")
            => lastInChan[n] = dendriteChans[n][gpc[n].chosen - fixedCases + 1]

\* --------------------------------------------------------------------- C19
\* C19: FireMultiple is never blocked sending to a target whose goroutine has
\* left its function: every target it does not skip takes the impulse, so the
\* call goes on to the remaining targets and returns.
C19_FireMultipleDelivers ==
    mainpc.op = "fm_send" => gpc[mainpc.n].at # "exited"

\* --------------------------------------------------------------------- C20
\* C20: a goroutine that writes lastInChan does so with an index below the
\* number of dendrites of its neuron, and the process never dies of a panic.
C20_IndexInRange ==
    /\ ~crashed
    /\ \A n \in Neurons :
          (gpc[n].at = "tail" /\ Len(dendriteChans[n]) > 0)
              => LastInIndex(gpc[n].chosen) < Len(dendriteChans[n])

====
